---- MODULE Spec2Model ----
(***************************************************************************)
(* State-machine model of the Satellite-Tracker browser client:            *)
(*   - utils/retry (retryWithBackoff, retrySimple) over services/httpClient *)
(*   - services/authService and contexts/AuthContext (token lifecycle)      *)
(*   - components/SatelliteTrackingDashboard (load, refresh, auto-refresh,  *)
(*     derived views)                                                       *)
(* Each part has its own specification over the shared variables.           *)
(***************************************************************************)
EXTENDS Integers, Sequences, FiniteSets, TLC

VARIABLES
  \* ---- localStorage[config.JWT_TOKEN_KEY]
  storedToken,
  \* ---- one retryWithBackoff / retrySimple call around httpClient
  rPc,            \* "idle" | "inflight" | "waiting" | "done"
  rMode,          \* "backoff" (retryWithBackoff) | "simple" (retrySimple)
  rMaxRetries,    \* parameter maxRetries
  rBaseDelay,     \* parameter baseDelay (retrySimple: delay)
  rAttempt,       \* loop variable attempt
  rStatuses,      \* outcome of every attempt made so far, in order
  rReq,           \* config of the request in flight: Authorization, _retry
  rDelay,         \* delay handed to setTimeout for the pending wait
  rWaits,         \* number of setTimeout waits started
  rLastError,     \* lastError
  rResult,        \* what the call returned or threw
  rInvalidations  \* number of localStorage.removeItem calls by the interceptor

retryVars == <<rPc, rMode, rMaxRetries, rBaseDelay, rAttempt, rStatuses, rReq,
               rDelay, rWaits, rLastError, rResult, rInvalidations>>

VARIABLES
  \* ---- services/authService + contexts/AuthContext
  authState,      \* reducer state: user, token, isAuthenticated, isLoading, error
  aPc,            \* "boot" (before the mount effect) | "ready"
  aReq,           \* auth request in flight: "none" | "login" | "register"
  navigating,     \* window.location.href = '/login' was assigned
  nowMs,          \* Date.now()
  lastCheck,      \* last authService.isAuthenticated() call: inputs and result
  lastRestore     \* last loadStoredAuth run: inputs and result

authVars == <<authState, aPc, aReq, navigating, nowMs, lastCheck, lastRestore>>

VARIABLES
  \* ---- components/SatelliteTrackingDashboard: React state
  favorites, passes, loading, passesLoading, refreshing, error, backendHealthy,
  lastUpdate,     \* number of setLastUpdate(new Date()) calls so far; 0: null
  autoRefresh, refreshInterval,
  viewParams,     \* satelliteFilter, satelliteSort, passFilter, passSort, showOnlyVisible
  \* ---- what the last render computed
  satViews,       \* results of the filteredAndSortedSatellites() calls, in order
  passViews,      \* results of the filteredAndSortedPasses() calls, in order
  \* ---- the component's environment
  mounted,        \* the component is mounted
  timers,         \* armed setInterval timers: id, time left, captured favorites
  cleanupTimer,   \* timer the pending effect cleanup clears (0: no cleanup)
  nextTimerId,
  sinceEnable,    \* minutes since auto-refresh was last enabled (saturating)
  ticksSinceEnable, \* timer ticks since then (saturating)
  loadPc,         \* loadDashboardData: "health" | "fetch" | "done"
  loadFav,        \* settled result of its getFavorites(), or pending
  loadPass,       \* settled result of its getUpcomingPasses(), or pending
  healthReq, loadFavReq, loadPassReq, passesReq,  \* "none" | "new" | "old"
  posNew, posOld  \* refreshPositions calls awaiting getFavorites()

stateVars == <<favorites, passes, loading, passesLoading, refreshing, error,
               backendHealthy, lastUpdate, autoRefresh, refreshInterval>>
viewVars == <<viewParams, satViews, passViews>>
envVars == <<mounted, timers, cleanupTimer, nextTimerId, sinceEnable,
             ticksSinceEnable, loadPc, loadFav, loadPass, healthReq, loadFavReq,
             loadPassReq, passesReq, posNew, posOld>>
dashVars == <<stateVars, viewVars, envVars>>

VARIABLES
  \* ---- components/SatelliteSearch: React state
  sQuery,         \* query: the text of the input, a sequence of characters
  sResults,       \* results
  sLoading,       \* loading
  sError,         \* error: null, or the failure a search surfaced
  \* ---- the component's environment
  sDebounce,      \* the armed setTimeout of the debounce effect and its query
  sInflight,      \* searchSatellites calls not yet settled: id, query, attempt, pc
  sIssued,        \* number of searchSatellites calls made so far
  sLast           \* the most recent performSearch call and what it ended with

searchVars == <<sQuery, sResults, sLoading, sError, sDebounce, sInflight,
                sIssued, sLast>>

vars == <<storedToken, retryVars, authVars, dashVars, searchVars>>

-----------------------------------------------------------------------------
(* Bounds of the model *)
MaxRetriesBound == 3
MaxNowMs == 3000
MaxListLen == 2
MaxTimers == 2
MaxUpdates == 3

(* Program constants *)
JitterRangeMs == 1000
RateLimitStatus == 429
UnauthorizedStatus == 401
ClientErrorLow == 400
ClientErrorHigh == 500
MsPerSecond == 1000
RefreshMinutes == 5

-----------------------------------------------------------------------------
(* Tokens.  A JWT is modelled by what the client reads of it: whether its  *)
(* payload parses, and the exp / sub / email claims.                        *)
NoToken == [kind |-> "none"]
Jwt(e) == [kind |-> "jwt", exp |-> e]
NoExpToken == [kind |-> "noexp"]          \* payload parses, has no exp
MalformedToken == [kind |-> "malformed"]  \* split / atob / JSON.parse throws
ExpSeconds == {1, 2}
Tokens == {Jwt(e) : e \in ExpSeconds} \cup {NoExpToken, MalformedToken}

(* Response outcomes of one attempt.  NoResponse stands for an error with  *)
(* no error.response (DNS / connection failure / timeout).                  *)
NoResponse == 0
OkStatus == 200
RetryableStatuses == {NoResponse, 429, 500, 503}
ClientStatuses == {400, 401, 403, 404, 499}
Statuses == {OkStatus} \cup RetryableStatuses \cup ClientStatuses

BaseDelays == {1000, 250}
JitterSamples == {0, 500, 999}     \* values of Math.random() * 1000 in [0, 1000)
RetryModes == {"backoff", "simple"}

RECURSIVE Pow2(_)
Pow2(n) == IF n = 0 THEN 1 ELSE 2 * Pow2(n - 1)

NoError == [attempt |-> -1, status |-> -1]

-----------------------------------------------------------------------------
(* httpClient request interceptor: attach the stored token, if any.  Every *)
(* call of httpClient.get builds a fresh config, so _retry starts unset.    *)
NewRequest(token) == [auth |-> token, retry |-> FALSE]

(* httpClient response interceptor, 401 branch. *)
Handles401_OnlyRetried(status, req) == status = UnauthorizedStatus /\ req.retry

Handles401(status, req) == status = UnauthorizedStatus /\ ~req.retry

(* retry.js: "Don't retry on client errors (4xx) except 429".              *)
IsNonRetryable_Retry401(status) ==
  /\ status # NoResponse
  /\ status >= ClientErrorLow
  /\ status < ClientErrorHigh
  /\ status # RateLimitStatus
  /\ status # UnauthorizedStatus

IsNonRetryable_Above400(status) ==
  /\ status # NoResponse
  /\ status > ClientErrorLow
  /\ status < ClientErrorHigh
  /\ status # RateLimitStatus

IsNonRetryable(status) ==
  /\ status # NoResponse
  /\ status >= ClientErrorLow
  /\ status < ClientErrorHigh
  /\ status # RateLimitStatus

(* retry.js: "Don't retry on the last attempt". *)
IsLastAttempt_OneShort(attempt, maxRetries) == attempt + 1 >= maxRetries

IsLastAttempt(attempt, maxRetries) == attempt = maxRetries

(* retry.js: baseDelay * Math.pow(2, attempt) + Math.random() * 1000 *)
BackoffDelay_Linear(baseDelay, attempt, jitter) ==
  baseDelay * 2 * attempt + jitter

BackoffDelay(baseDelay, attempt, jitter) ==
  baseDelay * Pow2(attempt) + jitter

-----------------------------------------------------------------------------
(* `throw error` / `throw lastError`: the error the caller receives, given *)
(* lastError and the outcomes of the attempts made                           *)
SurfacedError_First(lastError, statuses) == [attempt |-> 0, status |-> statuses[1]]

SurfacedError(lastError, statuses) == lastError

RetryIdle ==
  /\ rPc = "idle"
  /\ rMode = "backoff"
  /\ rMaxRetries = 0
  /\ rBaseDelay = 0
  /\ rAttempt = 0
  /\ rStatuses = <<>>
  /\ rReq = NewRequest(NoToken)
  /\ rDelay = 0
  /\ rWaits = 0
  /\ rLastError = NoError
  /\ rResult = [kind |-> "none"]
  /\ rInvalidations = 0

(* A caller starts retryWithBackoff(fn, maxRetries, baseDelay) or          *)
(* retrySimple(fn, maxRetries, delay); the loop's first fn() issues the     *)
(* request.                                                                 *)
StartCall(mode, maxRetries, baseDelay) ==
  /\ rPc = "idle"
  /\ rPc' = "inflight"
  /\ rMode' = mode
  /\ rMaxRetries' = maxRetries
  /\ rBaseDelay' = baseDelay
  /\ rAttempt' = 0
  /\ rReq' = NewRequest(storedToken)
  /\ UNCHANGED <<storedToken, rStatuses, rDelay, rWaits, rLastError, rResult,
                 rInvalidations>>

(* The attempt in flight settles with `status`: the response interceptor   *)
(* runs, then the try/catch of the retry loop, up to the return, the throw *)
(* or the setTimeout.                                                       *)
AttemptSettles(status, jitter) ==
  /\ rPc = "inflight"
  /\ rStatuses' = Append(rStatuses, status)
  /\ IF status = OkStatus
       THEN /\ rPc' = "done"
            /\ rResult' = [kind |-> "ok", attempt |-> rAttempt]
            /\ UNCHANGED <<storedToken, rReq, rDelay, rWaits, rLastError,
                           rInvalidations>>
       ELSE /\ IF Handles401(status, rReq)
                 THEN /\ rReq' = [rReq EXCEPT !.retry = TRUE]
                      /\ storedToken' = NoToken
                      /\ rInvalidations' = rInvalidations + 1
                 ELSE UNCHANGED <<rReq, storedToken, rInvalidations>>
            /\ rLastError' = [attempt |-> rAttempt, status |-> status]
            /\ IF IsNonRetryable(status) \/ IsLastAttempt(rAttempt, rMaxRetries)
                 THEN /\ rPc' = "done"
                      /\ rResult' = [kind |-> "error",
                                      error |-> SurfacedError(rLastError', rStatuses')]
                      /\ UNCHANGED <<rDelay, rWaits>>
                 ELSE /\ rPc' = "waiting"
                      /\ rDelay' = IF rMode = "backoff"
                                     THEN BackoffDelay(rBaseDelay, rAttempt, jitter)
                                     ELSE rBaseDelay
                      /\ rWaits' = rWaits + 1
                      /\ UNCHANGED rResult
  /\ UNCHANGED <<rMode, rMaxRetries, rBaseDelay, rAttempt>>

(* The setTimeout of the wait fires: attempt++ and the next fn(). *)
WaitElapses_WhileInFlight ==
  /\ rPc \in {"waiting", "inflight"}
  /\ rAttempt < rMaxRetries
  /\ rPc' = "inflight"
  /\ rAttempt' = rAttempt + 1
  /\ rReq' = NewRequest(storedToken)
  /\ UNCHANGED <<storedToken, rMode, rMaxRetries, rBaseDelay, rStatuses, rDelay,
                 rWaits, rLastError, rResult, rInvalidations>>

WaitElapses ==
  /\ rPc = "waiting"
  /\ rPc' = "inflight"
  /\ rAttempt' = rAttempt + 1
  /\ rReq' = NewRequest(storedToken)
  /\ UNCHANGED <<storedToken, rMode, rMaxRetries, rBaseDelay, rStatuses, rDelay,
                 rWaits, rLastError, rResult, rInvalidations>>



-----------------------------------------------------------------------------
(* Token lifecycle: services/authService.js and contexts/AuthContext.       *)

initialState ==
  [user |-> "none", token |-> NoToken, isAuthenticated |-> FALSE,
   isLoading |-> TRUE, error |-> "none"]

(* authReducer *)
LoginSuccess_KeepsSession(state, token, user) ==
  IF state.isAuthenticated
    THEN [state EXCEPT !.isLoading = FALSE, !.error = "none"]
    ELSE [state EXCEPT !.user = user, !.token = token, !.isAuthenticated = TRUE,
                       !.isLoading = FALSE, !.error = "none"]

LoginSuccess(state, token, user) ==
  [state EXCEPT !.user = user, !.token = token, !.isAuthenticated = TRUE,
                !.isLoading = FALSE, !.error = "none"]
LoginStart(state) == [state EXCEPT !.isLoading = TRUE, !.error = "none"]
LoginFailure(state, msg) ==
  [state EXCEPT !.user = "none", !.token = NoToken, !.isAuthenticated = FALSE,
                !.isLoading = FALSE, !.error = msg]
LogoutState(state) ==
  [state EXCEPT !.user = "none", !.token = NoToken, !.isAuthenticated = FALSE,
                !.isLoading = FALSE, !.error = "none"]
SetLoading(state, b) == [state EXCEPT !.isLoading = b]

(* JSON.parse(atob(token.split('.')[1])) returns instead of throwing *)
PayloadParses(token) == token.kind \in {"jwt", "noexp"}

(* tokenData.exp > currentTime with currentTime = Date.now() / 1000: exp   *)
(* is in seconds, Date.now() in milliseconds; exp > ms / 1000 is compared   *)
(* as exp * 1000 > ms.  A payload without exp gives undefined > x = false.  *)
StoredTokenValid_Inclusive(token, ms) ==
  token.kind = "jwt" /\ token.exp * MsPerSecond >= ms

StoredTokenValid(token, ms) ==
  token.kind = "jwt" /\ token.exp * MsPerSecond > ms

IsAuthenticatedResult_Inclusive(token, ms) ==
  /\ token # NoToken
  /\ PayloadParses(token)
  /\ token.kind = "jwt"
  /\ token.exp * MsPerSecond >= ms

IsAuthenticatedResult(token, ms) ==
  /\ token # NoToken
  /\ PayloadParses(token)
  /\ token.kind = "jwt"
  /\ token.exp * MsPerSecond > ms

NoCall == [op |-> "none"]

AuthIdle ==
  /\ authState = initialState
  /\ aPc = "boot"
  /\ aReq = "none"
  /\ navigating = FALSE
  /\ nowMs = 0
  /\ lastCheck = NoCall
  /\ lastRestore = NoCall

(* AuthProvider mount effect *)
LoadStoredAuth ==
  /\ aPc = "boot"
  /\ aPc' = "ready"
  /\ IF storedToken = NoToken
       THEN /\ authState' = SetLoading(authState, FALSE)
            /\ UNCHANGED <<storedToken, lastRestore>>
       ELSE /\ lastRestore' = [op |-> "restore", token |-> storedToken, now |-> nowMs,
                               result |-> PayloadParses(storedToken)
                                          /\ StoredTokenValid(storedToken, nowMs)]
            /\ IF PayloadParses(storedToken) /\ StoredTokenValid(storedToken, nowMs)
                 THEN /\ authState' = SetLoading(LoginSuccess(authState, storedToken, "user"), FALSE)
                      /\ UNCHANGED storedToken
                 ELSE /\ storedToken' = NoToken
                      /\ authState' = SetLoading(authState, FALSE)
  /\ UNCHANGED <<aReq, navigating, nowMs, lastCheck>>

(* authService.isAuthenticated() *)
IsAuthenticatedCall ==
  /\ lastCheck' = [op |-> "isAuthenticated", token |-> storedToken, now |-> nowMs,
                   result |-> IsAuthenticatedResult(storedToken, nowMs)]
  /\ storedToken' = IF storedToken # NoToken /\ ~PayloadParses(storedToken)
                      THEN NoToken ELSE storedToken
  /\ UNCHANGED <<authState, aPc, aReq, navigating, nowMs, lastRestore>>

(* AuthContext login / register: dispatch *_START, then await authService *)
AuthRequestStart(kind) ==
  /\ aPc = "ready"
  /\ aReq = "none"
  /\ aReq' = kind
  /\ authState' = LoginStart(authState)
  /\ UNCHANGED <<storedToken, aPc, navigating, nowMs, lastCheck, lastRestore>>

(* authService.login / register resolve: setItem, then *_SUCCESS *)
AuthRequestSucceeds(token) ==
  /\ aReq # "none"
  /\ aReq' = "none"
  /\ storedToken' = token
  /\ authState' = LoginSuccess(authState, token, "user")
  /\ UNCHANGED <<aPc, navigating, nowMs, lastCheck, lastRestore>>

(* authService.login / register reject with `status`; a 401 first passes   *)
(* the response interceptor, which removes the token and redirects.         *)
AuthRequestFails(status, onLoginPage) ==
  /\ aReq # "none"
  /\ aReq' = "none"
  /\ IF status = UnauthorizedStatus
       THEN /\ storedToken' = NoToken
            /\ navigating' = (navigating \/ ~onLoginPage)
       ELSE UNCHANGED <<storedToken, navigating>>
  /\ authState' = LoginFailure(authState, "failed")
  /\ UNCHANGED <<aPc, nowMs, lastCheck, lastRestore>>

(* AuthContext logout *)
Logout ==
  /\ aPc = "ready"
  /\ storedToken' = NoToken
  /\ authState' = LogoutState(authState)
  /\ UNCHANGED <<aPc, aReq, navigating, nowMs, lastCheck, lastRestore>>

(* Any other request through httpClient is answered 401: the response      *)
(* interceptor removes the token and, off the login page, assigns           *)
(* window.location.href.                                                     *)
Interceptor401(onLoginPage) ==
  /\ aPc = "ready"
  /\ storedToken' = NoToken
  /\ navigating' = (navigating \/ ~onLoginPage)
  /\ UNCHANGED <<authState, aPc, aReq, nowMs, lastCheck, lastRestore>>

(* The navigation to /login loads the page anew: the app starts over with  *)
(* localStorage kept.                                                        *)
PageReload ==
  /\ navigating
  /\ navigating' = FALSE
  /\ authState' = initialState
  /\ aPc' = "boot"
  /\ aReq' = "none"
  /\ UNCHANGED <<storedToken, nowMs, lastCheck, lastRestore>>

ClockSteps == {500, 1000}

ClockAdvance(step) ==
  /\ nowMs + step <= MaxNowMs
  /\ nowMs' = nowMs + step
  /\ UNCHANGED <<storedToken, authState, aPc, aReq, navigating, lastCheck, lastRestore>>

AuthStatuses == {400, 401, 500, NoResponse}



-----------------------------------------------------------------------------
(* Strings the views inspect are sequences of characters.                   *)

LowerOf(c) ==
  CASE c = "I" -> "i" [] c = "S" -> "s" [] c = "H" -> "h" [] OTHER -> c

toLowerCase(str) == [i \in 1..Len(str) |-> LowerOf(str[i])]

(* String.prototype.includes *)
includes(hay, needle) ==
  /\ Len(needle) <= Len(hay)
  /\ \E k \in 0..(Len(hay) - Len(needle)) : SubSeq(hay, k + 1, k + Len(needle)) = needle

DigitChar == <<"0", "1", "2", "3", "4", "5", "6", "7", "8", "9">>

(* Number.prototype.toString of a non-negative integer *)
RECURSIVE toString(_)
toString(n) ==
  IF n < 10 THEN <<DigitChar[n + 1]>>
  ELSE Append(toString(n \div 10), DigitChar[(n % 10) + 1])

(* String.prototype.localeCompare, default collation: letters compare by   *)
(* alphabet regardless of case; strings equal up to case order lowercase    *)
(* first at the first difference.                                            *)
Collation == <<"0", "1", "2", "3", "4", "5", "6", "7", "8", "9",
               "b", "e", "h", "i", "l", "s", "u">>
Rank(c) == CHOOSE i \in 1..Len(Collation) : Collation[i] = LowerOf(c)

RECURSIVE PrimaryCompare(_, _)
PrimaryCompare(a, b) ==
  IF a = <<>> /\ b = <<>> THEN 0
  ELSE IF a = <<>> THEN -1
  ELSE IF b = <<>> THEN 1
  ELSE IF Rank(a[1]) # Rank(b[1]) THEN Rank(a[1]) - Rank(b[1])
  ELSE PrimaryCompare(Tail(a), Tail(b))

RECURSIVE CaseCompare(_, _)
CaseCompare(a, b) ==
  IF a = <<>> \/ b = <<>> THEN 0
  ELSE IF a[1] = b[1] THEN CaseCompare(Tail(a), Tail(b))
  ELSE IF LowerOf(a[1]) = a[1] THEN -1 ELSE 1

localeCompare(a, b) ==
  IF PrimaryCompare(a, b) # 0 THEN PrimaryCompare(a, b) ELSE CaseCompare(a, b)

-----------------------------------------------------------------------------
(* Records of the two collections, as far as the dashboard reads them.      *)
NoPosition == [present |-> FALSE, altitude |-> 0, velocity |-> 0]
Position(alt, vel) == [present |-> TRUE, altitude |-> alt, velocity |-> vel]

ISS == [id |-> 1, norad_id |-> 25544, name |-> <<"I", "S", "S">>,
        current_position |-> Position(420, 7660), added_at |-> 1]
Hubble == [id |-> 2, norad_id |-> 20580, name |-> <<"H", "u", "b", "b", "l", "e">>,
           current_position |-> Position(540, 7590), added_at |-> 2]
Iss2 == [id |-> 3, norad_id |-> 255, name |-> <<"i", "s", "s">>,
         current_position |-> NoPosition, added_at |-> 2]
Sats == {ISS, Hubble, Iss2}

PassA == [satellite |-> [norad_id |-> 25544, name |-> <<"I", "S", "S">>],
          start_time |-> 10, duration |-> 300, max_elevation |-> 15,
          visibility |-> "visible"]
PassB == [satellite |-> [norad_id |-> 20580, name |-> <<"H", "u", "b", "b", "l", "e">>],
          start_time |-> 20, duration |-> 600, max_elevation |-> 30,
          visibility |-> "daylight"]
PassC == [satellite |-> [norad_id |-> 25544, name |-> <<"I", "S", "S">>],
          start_time |-> 10, duration |-> 600, max_elevation |-> 45,
          visibility |-> "visible"]
PassRecords == {PassA, PassB, PassC}

(* Lists of distinct records of S, at most MaxListLen long *)
ListsOver(S) ==
  UNION {{q \in [1..n -> S] : \A i, j \in 1..n : i # j => q[i] # q[j]} :
         n \in 0..MaxListLen}

SatelliteFilters == {<<>>, <<"s">>, <<"2", "5">>}
SatelliteSorts == {"name", "norad_id", "altitude", "velocity", "added_at"}
PassFilters == {"all", "30"}
PassSorts == {"start_time", "elevation", "duration", "satellite"}

defaultParams ==
  [satelliteFilter |-> <<>>, satelliteSort |-> "name", passFilter |-> "all",
   passSort |-> "start_time", showOnlyVisible |-> FALSE]

(* parseInt of the option values of the elevation select *)
parseInt(str) ==
  CASE str = "10" -> 10 [] str = "30" -> 30 [] str = "60" -> 60

-----------------------------------------------------------------------------
(* Derived views.  Array.prototype.sort is stable and sorts in place.       *)

(* a.current_position?.altitude || 0 *)
AltitudeOf(sat) ==
  IF sat.current_position.present THEN sat.current_position.altitude ELSE 0
VelocityOf(sat) ==
  IF sat.current_position.present THEN sat.current_position.velocity ELSE 0

(* the comparator of filteredAndSortedSatellites *)
SatCompare_AddedAscending(key, a, b) ==
  CASE key = "name" -> localeCompare(a.name, b.name)
    [] key = "norad_id" -> a.norad_id - b.norad_id
    [] key = "altitude" -> AltitudeOf(b) - AltitudeOf(a)
    [] key = "velocity" -> VelocityOf(b) - VelocityOf(a)
    [] key = "added_at" -> a.added_at - b.added_at
    [] OTHER -> 0

SatCompare(key, a, b) ==
  CASE key = "name" -> localeCompare(a.name, b.name)
    [] key = "norad_id" -> a.norad_id - b.norad_id
    [] key = "altitude" -> AltitudeOf(b) - AltitudeOf(a)
    [] key = "velocity" -> VelocityOf(b) - VelocityOf(a)
    [] key = "added_at" -> b.added_at - a.added_at
    [] OTHER -> 0

(* the comparator of filteredAndSortedPasses; start_time holds the value   *)
(* of new Date(start_time)                                                   *)
PassCompare(key, a, b) ==
  CASE key = "start_time" -> a.start_time - b.start_time
    [] key = "elevation" -> b.max_elevation - a.max_elevation
    [] key = "duration" -> b.duration - a.duration
    [] key = "satellite" -> localeCompare(a.satellite.name, b.satellite.name)
    [] OTHER -> 0

Compare(kind, key, a, b) ==
  IF kind = "sat" THEN SatCompare(key, a, b) ELSE PassCompare(key, a, b)

(* Where a stable sort puts x among the already sorted elements before it *)
InsertAt_BeforeEqual(kind, key, sorted, x) ==
  Cardinality({i \in DOMAIN sorted : Compare(kind, key, sorted[i], x) < 0})

InsertAt(kind, key, sorted, x) ==
  Cardinality({i \in DOMAIN sorted : Compare(kind, key, sorted[i], x) <= 0})

RECURSIVE sort(_, _, _)
sort(kind, key, arr) ==
  IF Len(arr) <= 1 THEN arr
  ELSE LET front == sort(kind, key, SubSeq(arr, 1, Len(arr) - 1))
           x == arr[Len(arr)]
           at == InsertAt(kind, key, front, x)
       IN SubSeq(front, 1, at) \o <<x>> \o SubSeq(front, at + 1, Len(front))

SatMatches(sat, filter) ==
  \/ includes(toLowerCase(sat.name), toLowerCase(filter))
  \/ includes(toString(sat.norad_id), filter)

(* A view that leaves out satellites without a position when the sort key *)
(* reads the position                                                        *)
filteredAndSortedSatellites_DropsUnpositioned(favs, params) ==
  LET Keep(sat) ==
        /\ SatMatches(sat, params.satelliteFilter)
        /\ params.satelliteSort \in {"altitude", "velocity"} => sat.current_position.present
  IN sort("sat", params.satelliteSort, SelectSeq(favs, Keep))

(* filteredAndSortedSatellites(): favorites.filter(...) is a new array *)
filteredAndSortedSatellites(favs, params) ==
  LET Keep(sat) == SatMatches(sat, params.satelliteFilter)
  IN sort("sat", params.satelliteSort, SelectSeq(favs, Keep))

(* Whether `filtered` still is the state array `passes` when it is sorted *)
PassesAliased(params) == ~params.showOnlyVisible /\ params.passFilter = "all"

PassesFiltered_StrictElevation(pss, params) ==
  LET Visible(pass) == pass.visibility = "visible"
      f1 == IF params.showOnlyVisible THEN SelectSeq(pss, Visible) ELSE pss
      High(pass) == pass.max_elevation > parseInt(params.passFilter)
  IN IF params.passFilter # "all" THEN SelectSeq(f1, High) ELSE f1

PassesFiltered(pss, params) ==
  LET Visible(pass) == pass.visibility = "visible"
      f1 == IF params.showOnlyVisible THEN SelectSeq(pss, Visible) ELSE pss
      High(pass) == pass.max_elevation >= parseInt(params.passFilter)
  IN IF params.passFilter # "all" THEN SelectSeq(f1, High) ELSE f1

(* filteredAndSortedPasses(): the returned array, and the state array      *)
(* `passes` after the call                                                   *)
filteredAndSortedPasses(pss, params) ==
  LET out == sort("pass", params.passSort, PassesFiltered(pss, params))
  IN [out |-> out, passes |-> IF PassesAliased(params) THEN out ELSE pss]

(* One render of the dashboard body: the three calls of each view, in      *)
(* order (the header count, the emptiness test, the rows).                   *)
RenderSatellites(favs, params) ==
  LET v1 == filteredAndSortedSatellites(favs, params)
      v2 == filteredAndSortedSatellites(favs, params)
      v3 == filteredAndSortedSatellites(favs, params)
  IN IF Len(v2) = 0 THEN <<v1, v2>> ELSE <<v1, v2, v3>>

RenderPasses(pss, params) ==
  LET c1 == filteredAndSortedPasses(pss, params)
      c2 == filteredAndSortedPasses(c1.passes, params)
      c3 == filteredAndSortedPasses(c2.passes, params)
  IN IF Len(c2.out) = 0
       THEN [views |-> <<c1.out, c2.out>>, passes |-> c2.passes]
       ELSE [views |-> <<c1.out, c2.out, c3.out>>, passes |-> c3.passes]

(* React commits new state and renders: the spinner while loading, else    *)
(* the body.                                                                 *)
Commit(favs, pss, isLoading, params) ==
  /\ favorites' = favs
  /\ viewParams' = params
  /\ IF isLoading
       THEN /\ passes' = pss
            /\ UNCHANGED <<satViews, passViews>>
       ELSE /\ passes' = RenderPasses(pss, params).passes
            /\ passViews' = RenderPasses(pss, params).views
            /\ satViews' = RenderSatellites(favs, params)


-----------------------------------------------------------------------------
(* SatelliteTrackingDashboard: loading, refreshing, auto-refresh.           *)
(* Time is counted in minutes.  A request through httpClient lasts at most  *)
(* its 30 s timeout, so it is in flight across at most one minute boundary: *)
(* "new" before it, "old" after it.                                          *)

NoDate == 0
Pending == [status |-> "pending"]
Fulfilled(v) == [status |-> "fulfilled", value |-> v]
Rejected == [status |-> "rejected"]

BackendDownMessage ==
  "Backend service is not available. Please check if the server is running."
PassesFailedMessage == "Failed to refresh passes"

(* Responses: status, and the part of the body the client reads: the      *)
(* health body's status field; the favorites / passes field, which a body   *)
(* may lack.                                                                 *)
HealthResponses ==
  {[status |-> 200, body |-> "healthy"], [status |-> 200, body |-> "degraded"],
   [status |-> 204, body |-> "absent"], [status |-> 503, body |-> "absent"],
   [status |-> NoResponse, body |-> "absent"]}
FavPayloads == {<<ISS>>, <<Hubble, ISS>>}
PassPayloads == {<<PassB, PassA>>, <<PassC>>}
WithList(list) == [has |-> TRUE, list |-> list]
WithoutList == [has |-> FALSE, list |-> <<>>]
ErrorResponses(codes) == {[status |-> c, body |-> WithoutList] : c \in codes}
FavResponses ==
  {[status |-> 200, body |-> b] : b \in {WithList(l) : l \in FavPayloads} \cup {WithoutList}}
    \cup ErrorResponses({404, 500})
PassResponses ==
  {[status |-> 200, body |-> b] : b \in {WithList(l) : l \in PassPayloads} \cup {WithoutList}}
    \cup ErrorResponses({404, 422, NoResponse})

(* axios resolves on 2xx and rejects otherwise *)
Resolves(resp) == resp.status >= 200 /\ resp.status < 300

(* healthCheck.js checkBackendHealth *)
checkBackendHealth(resp) ==
  Resolves(resp) /\ resp.status = 200 /\ resp.body = "healthy"

(* response.data.favorites || [] *)
OrEmpty(body) == IF body.has THEN body.list ELSE <<>>

(* A favorites fetch that answers every error with the empty list *)
getFavorites_EmptyOnError(resp) ==
  IF Resolves(resp) THEN Fulfilled(OrEmpty(resp.body)) ELSE Fulfilled(<<>>)

(* userService.getFavorites *)
getFavorites(resp) ==
  IF Resolves(resp) THEN Fulfilled(OrEmpty(resp.body))
  ELSE IF resp.status = 404 THEN Fulfilled(<<>>)
  ELSE Rejected

(* A passes fetch that fails on 422 as on any other error *)
getUpcomingPasses_Rejects422(resp) ==
  IF Resolves(resp) THEN Fulfilled(OrEmpty(resp.body))
  ELSE IF resp.status = 404 THEN Fulfilled(<<>>)
  ELSE Rejected

(* userService.getUpcomingPasses *)
getUpcomingPasses(resp) ==
  IF Resolves(resp) THEN Fulfilled(OrEmpty(resp.body))
  ELSE IF resp.status = 404 \/ resp.status = 422 THEN Fulfilled(<<>>)
  ELSE Rejected

SettledValueOrEmpty(r) == IF r.status = "fulfilled" THEN r.value ELSE <<>>

(* clearInterval *)
clearInterval(ts, id) == {t \in ts : t.id # id}

(* setInterval(() => refreshPositions(), 5 * 60 * 1000) in a render whose  *)
(* favorites is `favs`: the callback keeps that render's refreshPositions.   *)
setInterval(ts, id, favs) ==
  ts \cup {[id |-> id, left |-> RefreshMinutes, favorites |-> favs]}

(* The auto-refresh effect, run because autoRefresh changed to `enabled`   *)
(* (or on mount): first the previous run's cleanup, then the body.  Gives   *)
(* the timers, the refreshInterval state and the new cleanup.                *)
AutoRefreshEffect_NoTeardown(ts, enabled, cleanup, interval, newId, favs) ==
  IF enabled
    THEN [timers |-> setInterval(ts, newId, favs), refreshInterval |-> newId,
          cleanup |-> newId]
    ELSE [timers |-> ts, refreshInterval |-> 0, cleanup |-> 0]

AutoRefreshEffect(ts, enabled, cleanup, interval, newId, favs) ==
  LET afterCleanup == IF cleanup # 0 THEN clearInterval(ts, cleanup) ELSE ts
  IN IF enabled
       THEN [timers |-> setInterval(afterCleanup, newId, favs),
             refreshInterval |-> newId, cleanup |-> newId]
       ELSE IF interval # 0
         THEN [timers |-> clearInterval(afterCleanup, interval),
               refreshInterval |-> 0, cleanup |-> 0]
         ELSE [timers |-> afterCleanup, refreshInterval |-> interval, cleanup |-> 0]

(* loadDashboardData after the health probe: the unhealthy branch returns *)
UnhealthyEndsCycle_FallsThrough(isHealthy) == FALSE

UnhealthyEndsCycle(isHealthy) == ~isHealthy

(* The state right after mount: the first render (spinner), then the two   *)
(* mount effects: loadDashboardData up to its await of the health probe,    *)
(* and the auto-refresh effect.                                              *)
DashMounted ==
  /\ favorites = <<>>
  /\ passes = <<>>
  /\ loading = TRUE
  /\ passesLoading = FALSE
  /\ refreshing = FALSE
  /\ error = "none"
  /\ backendHealthy = TRUE
  /\ lastUpdate = NoDate
  /\ autoRefresh = TRUE
  /\ refreshInterval = 1
  /\ viewParams = defaultParams
  /\ satViews = <<>>
  /\ passViews = <<>>
  /\ mounted = TRUE
  /\ timers = AutoRefreshEffect({}, TRUE, 0, 0, 1, <<>>).timers
  /\ cleanupTimer = 1
  /\ nextTimerId = 2
  /\ sinceEnable = 0
  /\ ticksSinceEnable = 0
  /\ loadPc = "health"
  /\ loadFav = Pending
  /\ loadPass = Pending
  /\ healthReq = "new"
  /\ loadFavReq = "none"
  /\ loadPassReq = "none"
  /\ passesReq = "none"
  /\ posNew = 0
  /\ posOld = 0

(* setState on an unmounted component changes nothing *)
KeepState == UNCHANGED <<stateVars, viewVars>>

(* loadDashboardData resumes with the health probe's answer *)
HealthSettles(resp) ==
  /\ loadPc = "health"
  /\ healthReq # "none"
  /\ healthReq' = "none"
  /\ LET isHealthy == checkBackendHealth(resp) IN
       IF UnhealthyEndsCycle(isHealthy)
         THEN /\ loadPc' = "done"
              /\ UNCHANGED <<loadFavReq, loadPassReq>>
              /\ IF mounted
                   THEN /\ backendHealthy' = isHealthy
                        /\ error' = BackendDownMessage
                        /\ loading' = FALSE
                        /\ Commit(<<>>, <<>>, FALSE, viewParams)
                        /\ UNCHANGED <<passesLoading, refreshing, lastUpdate,
                                       autoRefresh, refreshInterval>>
                   ELSE KeepState
         ELSE /\ loadPc' = "fetch"
              /\ loadFavReq' = "new"
              /\ loadPassReq' = "new"
              /\ IF mounted
                   THEN /\ backendHealthy' = isHealthy
                        /\ UNCHANGED <<favorites, passes, loading, passesLoading,
                                       refreshing, error, lastUpdate, autoRefresh,
                                       refreshInterval, viewVars>>
                   ELSE KeepState
  /\ UNCHANGED <<mounted, timers, cleanupTimer, nextTimerId, sinceEnable,
                 ticksSinceEnable, loadFav, loadPass, passesReq, posNew, posOld>>

(* Lines 66-87 of loadDashboardData, once Promise.allSettled has both      *)
(* results.                                                                  *)
LoadCompletes(fav, pss) ==
  /\ loadPc' = "done"
  /\ IF mounted
       THEN /\ loading' = FALSE
            /\ lastUpdate' = lastUpdate + 1
            /\ Commit(SettledValueOrEmpty(fav), SettledValueOrEmpty(pss), FALSE,
                      viewParams)
            /\ UNCHANGED <<passesLoading, refreshing, error, backendHealthy,
                           autoRefresh, refreshInterval>>
       ELSE KeepState

(* One of the two fetches of loadDashboardData settles *)
LoadFavSettles(resp) ==
  /\ loadPc = "fetch"
  /\ loadFavReq # "none"
  /\ loadFavReq' = "none"
  /\ IF loadPass # Pending
       THEN /\ LoadCompletes(getFavorites(resp), loadPass)
            /\ loadFav' = Pending
            /\ loadPass' = Pending
       ELSE /\ loadFav' = getFavorites(resp)
            /\ UNCHANGED <<loadPc, loadPass>>
            /\ KeepState
  /\ UNCHANGED <<mounted, timers, cleanupTimer, nextTimerId, sinceEnable,
                 ticksSinceEnable, healthReq, loadPassReq, passesReq,
                 posNew, posOld>>

LoadPassSettles(resp) ==
  /\ loadPc = "fetch"
  /\ loadPassReq # "none"
  /\ loadPassReq' = "none"
  /\ IF loadFav # Pending
       THEN /\ LoadCompletes(loadFav, getUpcomingPasses(resp))
            /\ loadFav' = Pending
            /\ loadPass' = Pending
       ELSE /\ loadPass' = getUpcomingPasses(resp)
            /\ UNCHANGED <<loadPc, loadFav>>
            /\ KeepState
  /\ UNCHANGED <<mounted, timers, cleanupTimer, nextTimerId, sinceEnable,
                 ticksSinceEnable, healthReq, loadFavReq, passesReq,
                 posNew, posOld>>

(* The model follows the dashboard while fewer than MaxUpdates timestamps  *)
(* have been set or are still to come from the refreshes in flight.          *)
UpdatesLeft == lastUpdate + posNew + posOld < MaxUpdates

(* refreshPositions() of a render whose favorites is `favs`, up to its     *)
(* await: there is no test of `refreshing`.                                  *)
refreshPositions(favs) ==
  IF Len(favs) = 0
    THEN UNCHANGED <<refreshing, posNew>>
    ELSE /\ refreshing' = TRUE
         /\ posNew' = posNew + 1

(* The "Refresh Positions" button (disabled={refreshing}) *)
ClickRefreshPositions ==
  /\ mounted /\ ~loading /\ ~refreshing
  /\ UpdatesLeft
  /\ refreshPositions(favorites)
  /\ UNCHANGED <<favorites, passes, loading, passesLoading, error, backendHealthy,
                 lastUpdate, autoRefresh, refreshInterval, viewVars>>
  /\ UNCHANGED <<mounted, timers, cleanupTimer, nextTimerId, sinceEnable,
                 ticksSinceEnable, loadPc, loadFav, loadPass, healthReq, loadFavReq,
                 loadPassReq, passesReq, posOld>>

(* A due timer fires its callback *)
TimerTick(t) ==
  /\ t \in timers
  /\ t.left = 0
  /\ timers' = (timers \ {t}) \cup {[t EXCEPT !.left = RefreshMinutes]}
  /\ ticksSinceEnable' = 1
  /\ refreshPositions(t.favorites)
  /\ UNCHANGED <<favorites, passes, loading, passesLoading, error, backendHealthy,
                 lastUpdate, autoRefresh, refreshInterval, viewVars>>
  /\ UNCHANGED <<mounted, cleanupTimer, nextTimerId, sinceEnable, loadPc,
                 loadFav, loadPass, healthReq, loadFavReq, loadPassReq, passesReq,
                 posOld>>

(* A completion that writes the state whether or not the component is     *)
(* still mounted                                                             *)
PositionsSettles_WritesUnmounted(resp, age) ==
  /\ IF age = "new"
       THEN posNew > 0 /\ posNew' = posNew - 1 /\ UNCHANGED posOld
       ELSE posOld > 0 /\ posOld' = posOld - 1 /\ UNCHANGED posNew
  /\ refreshing' = FALSE
  /\ IF getFavorites(resp).status = "fulfilled"
       THEN /\ lastUpdate' = lastUpdate + 1
            /\ Commit(getFavorites(resp).value, passes, loading, viewParams)
       ELSE /\ UNCHANGED lastUpdate
            /\ Commit(favorites, passes, loading, viewParams)
  /\ UNCHANGED <<loading, passesLoading, error, backendHealthy,
                 autoRefresh, refreshInterval>>
  /\ UNCHANGED <<mounted, timers, cleanupTimer, nextTimerId, sinceEnable,
                 ticksSinceEnable, loadPc, loadFav, loadPass, healthReq, loadFavReq,
                 loadPassReq, passesReq>>

(* A refreshPositions call resumes with the answer to its getFavorites() *)
PositionsSettles(resp, age) ==
  /\ IF age = "new"
       THEN posNew > 0 /\ posNew' = posNew - 1 /\ UNCHANGED posOld
       ELSE posOld > 0 /\ posOld' = posOld - 1 /\ UNCHANGED posNew
  /\ IF mounted
       THEN /\ refreshing' = FALSE
            /\ IF getFavorites(resp).status = "fulfilled"
                 THEN /\ lastUpdate' = lastUpdate + 1
                      /\ Commit(getFavorites(resp).value, passes, loading, viewParams)
                 ELSE /\ UNCHANGED lastUpdate
                      /\ Commit(favorites, passes, loading, viewParams)
            /\ UNCHANGED <<loading, passesLoading, error, backendHealthy,
                           autoRefresh, refreshInterval>>
       ELSE KeepState
  /\ UNCHANGED <<mounted, timers, cleanupTimer, nextTimerId, sinceEnable,
                 ticksSinceEnable, loadPc, loadFav, loadPass, healthReq, loadFavReq,
                 loadPassReq, passesReq>>

(* The "Refresh" button of the passes card (disabled={passesLoading}) *)
ClickRefreshPasses ==
  /\ mounted /\ ~loading /\ ~passesLoading
  /\ passesLoading' = TRUE
  /\ passesReq' = "new"
  /\ UNCHANGED <<favorites, passes, loading, refreshing, error, backendHealthy,
                 lastUpdate, autoRefresh, refreshInterval, viewVars>>
  /\ UNCHANGED <<mounted, timers, cleanupTimer, nextTimerId, sinceEnable,
                 ticksSinceEnable, loadPc, loadFav, loadPass, healthReq, loadFavReq,
                 loadPassReq, posNew, posOld>>

(* refreshPasses resumes with the answer to its getUpcomingPasses() *)
PassesSettles(resp) ==
  /\ passesReq # "none"
  /\ passesReq' = "none"
  /\ IF mounted
       THEN /\ passesLoading' = FALSE
            /\ IF getUpcomingPasses(resp).status = "fulfilled"
                 THEN /\ Commit(favorites, getUpcomingPasses(resp).value, loading,
                                viewParams)
                      /\ UNCHANGED error
                 ELSE /\ error' = PassesFailedMessage
                      /\ Commit(favorites, passes, loading, viewParams)
            /\ UNCHANGED <<loading, refreshing, backendHealthy, lastUpdate,
                           autoRefresh, refreshInterval>>
       ELSE KeepState
  /\ UNCHANGED <<mounted, timers, cleanupTimer, nextTimerId, sinceEnable,
                 ticksSinceEnable, loadPc, loadFav, loadPass, healthReq, loadFavReq,
                 loadPassReq, posNew, posOld>>

(* The auto-refresh switch: setAutoRefresh, the render, the effect *)
ToggleAutoRefresh ==
  /\ mounted /\ ~loading
  /\ autoRefresh \/ nextTimerId <= MaxTimers
  /\ autoRefresh' = ~autoRefresh
  /\ LET e == AutoRefreshEffect(timers, ~autoRefresh, cleanupTimer, refreshInterval,
                                nextTimerId, favorites)
     IN /\ timers' = e.timers
        /\ refreshInterval' = e.refreshInterval
        /\ cleanupTimer' = e.cleanup
  /\ nextTimerId' = IF autoRefresh' THEN nextTimerId + 1 ELSE nextTimerId
  /\ sinceEnable' = IF autoRefresh' THEN 0 ELSE sinceEnable
  /\ ticksSinceEnable' = IF autoRefresh' THEN 0 ELSE ticksSinceEnable
  /\ Commit(favorites, passes, loading, viewParams)
  /\ UNCHANGED <<loading, passesLoading, refreshing, error, backendHealthy, lastUpdate>>
  /\ UNCHANGED <<mounted, loadPc, loadFav, loadPass, healthReq, loadFavReq,
                 loadPassReq, passesReq, posNew, posOld>>

(* The component unmounts: React runs the pending effect cleanup *)
Unmount_NoCleanup ==
  /\ mounted
  /\ mounted' = FALSE
  /\ cleanupTimer' = 0
  /\ KeepState
  /\ UNCHANGED <<timers, nextTimerId, sinceEnable, ticksSinceEnable, loadPc, loadFav,
                 loadPass, healthReq, loadFavReq, loadPassReq, passesReq, posNew,
                 posOld>>

Unmount ==
  /\ mounted
  /\ mounted' = FALSE
  /\ timers' = IF cleanupTimer # 0 THEN clearInterval(timers, cleanupTimer) ELSE timers
  /\ cleanupTimer' = 0
  /\ KeepState
  /\ UNCHANGED <<nextTimerId, sinceEnable, ticksSinceEnable, loadPc, loadFav,
                 loadPass, healthReq, loadFavReq, loadPassReq, passesReq, posNew,
                 posOld>>

Aged(req) == IF req = "new" THEN "old" ELSE req

(* A minute passes: no timer is due and no request has outlived its        *)
(* timeout.                                                                  *)
MinutePasses ==
  /\ (\E t \in timers : t.left = 1 /\ t.favorites # <<>>) => UpdatesLeft
  /\ \A t \in timers : t.left > 0
  /\ "old" \notin {healthReq, loadFavReq, loadPassReq, passesReq}
  /\ posOld = 0
  /\ timers' = {[t EXCEPT !.left = t.left - 1] : t \in timers}
  /\ sinceEnable' = IF sinceEnable < RefreshMinutes THEN sinceEnable + 1 ELSE sinceEnable
  /\ healthReq' = Aged(healthReq)
  /\ loadFavReq' = Aged(loadFavReq)
  /\ loadPassReq' = Aged(loadPassReq)
  /\ passesReq' = Aged(passesReq)
  /\ posOld' = posNew
  /\ posNew' = 0
  /\ KeepState
  /\ UNCHANGED <<mounted, cleanupTimer, nextTimerId, ticksSinceEnable, loadPc,
                 loadFav, loadPass>>

(* components/SatelliteSearch over satelliteService.searchSatellites:     *)
(* the input sets `query`, a debounce effect calls performSearch 300 ms     *)
(* after the last change, and every non-empty performSearch issues one      *)
(* searchSatellites call, which retries through retryWithBackoff.            *)

Whitespace == {" "}

RECURSIVE trimStart(_)
trimStart(str) ==
  IF str # <<>> /\ Head(str) \in Whitespace THEN trimStart(Tail(str)) ELSE str

RECURSIVE trimEnd(_)
trimEnd(str) ==
  IF str # <<>> /\ str[Len(str)] \in Whitespace
  THEN trimEnd(SubSeq(str, 1, Len(str) - 1))
  ELSE str

(* String.prototype.trim *)
trim(str) == trimEnd(trimStart(str))

(* retryWithBackoff(fn, maxRetries = 3, ...) as searchSatellites calls it *)
DefaultMaxRetries == 3

(* Bound: searchSatellites calls per run *)
MaxSearches == 2

SearchQueries == {<<>>, <<" ">>, <<"i">>, <<" ", "h">>}
SearchPayloads == {<<ISS>>, <<Hubble>>}
SearchResponses ==
  {[status |-> OkStatus, body |-> b] :
     b \in {WithList(l) : l \in SearchPayloads} \cup {WithoutList}}
    \cup ErrorResponses({404, 500})

NoTimeout == [armed |-> FALSE, query |-> <<>>]
Armed(q) == [armed |-> TRUE, query |-> q]
NoSearchError == [set |-> FALSE, status |-> NoResponse]
SearchError(status) == [set |-> TRUE, status |-> status]
NoSearch == [called |-> FALSE, id |-> 0, query |-> <<>>, settled |-> FALSE,
             results |-> <<>>]

(* The state right after mount: the first render, then the debounce        *)
(* effect, which arms its timeout for the initial query ''.                  *)
SearchMounted ==
  /\ sQuery = <<>>
  /\ sResults = <<>>
  /\ sLoading = FALSE
  /\ sError = NoSearchError
  /\ sDebounce = Armed(<<>>)
  /\ sInflight = {}
  /\ sIssued = 0
  /\ sLast = NoSearch

(* onChange of the input: setQuery(e.target.value).  A new value renders   *)
(* again; the effect's cleanup clears the pending timeout and the effect    *)
(* arms one for the new query.                                               *)
setQuery(value) ==
  /\ value # sQuery
  /\ sQuery' = value
  /\ sDebounce' = Armed(value)
  /\ UNCHANGED <<sResults, sLoading, sError, sInflight, sIssued, sLast>>

(* performSearch up to its await *)
performSearch(searchQuery) ==
  IF trim(searchQuery) = <<>>
  THEN /\ sResults' = <<>>
       /\ sLast' = [called |-> TRUE, id |-> 0, query |-> searchQuery,
                    settled |-> TRUE, results |-> <<>>]
       /\ UNCHANGED <<sLoading, sError, sInflight, sIssued>>
  ELSE /\ sIssued < MaxSearches
       /\ sLoading' = TRUE
       /\ sError' = NoSearchError
       /\ sIssued' = sIssued + 1
       /\ sInflight' = sInflight \cup
            {[id |-> sIssued + 1, query |-> searchQuery, attempt |-> 0,
              pc |-> "inflight"]}
       /\ sLast' = [called |-> TRUE, id |-> sIssued + 1, query |-> searchQuery,
                    settled |-> FALSE, results |-> <<>>]
       /\ UNCHANGED sResults

(* The debounce timeout fires: performSearch(query) of the render that     *)
(* armed it.                                                                 *)
DebounceFires ==
  /\ sDebounce.armed
  /\ sDebounce' = NoTimeout
  /\ performSearch(sDebounce.query)
  /\ UNCHANGED sQuery

(* performSearch after its await: setResults in the try or in the catch,   *)
(* setLoading(false) in the finally.                                         *)
SearchEnds(req, list) ==
  /\ sResults' = list
  /\ sLoading' = FALSE
  /\ sInflight' = sInflight \ {req}
  /\ sLast' = IF req.id = sLast.id
              THEN [sLast EXCEPT !.settled = TRUE, !.results = list]
              ELSE sLast

(* One attempt of a searchSatellites call is answered. *)
SearchAttemptSettles(req, resp) ==
  /\ req \in sInflight
  /\ req.pc = "inflight"
  /\ IF Resolves(resp)
     THEN /\ SearchEnds(req, OrEmpty(resp.body))
          /\ UNCHANGED sError
     ELSE IF IsNonRetryable(resp.status) \/ IsLastAttempt(req.attempt, DefaultMaxRetries)
     THEN /\ SearchEnds(req, <<>>)
          /\ sError' = SearchError(resp.status)
     ELSE /\ sInflight' = (sInflight \ {req}) \cup {[req EXCEPT !.pc = "waiting"]}
          /\ UNCHANGED <<sResults, sLoading, sError, sLast>>
  /\ UNCHANGED <<sQuery, sDebounce, sIssued>>

(* The backoff wait of a searchSatellites call is over: next attempt. *)
SearchWaitElapses(req) ==
  /\ req \in sInflight
  /\ req.pc = "waiting"
  /\ sInflight' = (sInflight \ {req}) \cup
       {[req EXCEPT !.pc = "inflight", !.attempt = req.attempt + 1]}
  /\ UNCHANGED <<sQuery, sResults, sLoading, sError, sDebounce, sIssued, sLast>>

-----------------------------------------------------------------------------
InitDash ==
  /\ storedToken = Jwt(2)
  /\ RetryIdle
  /\ AuthIdle
  /\ DashMounted
  /\ SearchMounted

NextDash ==
  \/ \E r \in HealthResponses : HealthSettles(r) /\ UNCHANGED <<storedToken, retryVars, authVars, searchVars>>
  \/ \E r \in FavResponses : LoadFavSettles(r) /\ UNCHANGED <<storedToken, retryVars, authVars, searchVars>>
  \/ \E r \in PassResponses : LoadPassSettles(r) /\ UNCHANGED <<storedToken, retryVars, authVars, searchVars>>
  \/ ClickRefreshPositions /\ UNCHANGED <<storedToken, retryVars, authVars, searchVars>>
  \/ \E t \in timers : TimerTick(t) /\ UNCHANGED <<storedToken, retryVars, authVars, searchVars>>
  \/ \E r \in FavResponses, a \in {"new", "old"} :
       PositionsSettles(r, a) /\ UNCHANGED <<storedToken, retryVars, authVars, searchVars>>
  \/ ClickRefreshPasses /\ UNCHANGED <<storedToken, retryVars, authVars, searchVars>>
  \/ \E r \in PassResponses : PassesSettles(r) /\ UNCHANGED <<storedToken, retryVars, authVars, searchVars>>
  \/ ToggleAutoRefresh /\ UNCHANGED <<storedToken, retryVars, authVars, searchVars>>
  \/ Unmount /\ UNCHANGED <<storedToken, retryVars, authVars, searchVars>>
  \/ MinutePasses /\ UNCHANGED <<storedToken, retryVars, authVars, searchVars>>

SpecDash == InitDash /\ [][NextDash]_vars

-----------------------------------------------------------------------------
(* The view controls of a loaded dashboard.  A control's onChange sets one  *)
(* view parameter; React renders again when the value is a new one.          *)

SetViewParams(params) ==
  /\ mounted /\ ~loading
  /\ params # viewParams
  /\ Commit(favorites, passes, loading, params)
  /\ UNCHANGED <<loading, passesLoading, refreshing, error, backendHealthy,
                 lastUpdate, autoRefresh, refreshInterval, envVars>>

setSatelliteFilter(value) == SetViewParams([viewParams EXCEPT !.satelliteFilter = value])
setSatelliteSort(value) == SetViewParams([viewParams EXCEPT !.satelliteSort = value])
setShowOnlyVisible(checked) == SetViewParams([viewParams EXCEPT !.showOnlyVisible = checked])
setPassFilter(value) == SetViewParams([viewParams EXCEPT !.passFilter = value])
setPassSort(value) == SetViewParams([viewParams EXCEPT !.passSort = value])

(* The dashboard after loadDashboardData has stored the two collections   *)
(* and the body has been rendered with the initial view parameters.          *)
DashLoaded(favs, pss) ==
  /\ favorites = favs
  /\ passes = RenderPasses(pss, defaultParams).passes
  /\ loading = FALSE
  /\ passesLoading = FALSE
  /\ refreshing = FALSE
  /\ error = "none"
  /\ backendHealthy = TRUE
  /\ lastUpdate = 1
  /\ autoRefresh = TRUE
  /\ refreshInterval = 1
  /\ viewParams = defaultParams
  /\ satViews = RenderSatellites(favs, defaultParams)
  /\ passViews = RenderPasses(pss, defaultParams).views
  /\ mounted = TRUE
  /\ timers = AutoRefreshEffect({}, TRUE, 0, 0, 1, <<>>).timers
  /\ cleanupTimer = 1
  /\ nextTimerId = 2
  /\ sinceEnable = 0
  /\ ticksSinceEnable = 0
  /\ loadPc = "done"
  /\ loadFav = Pending
  /\ loadPass = Pending
  /\ healthReq = "none"
  /\ loadFavReq = "none"
  /\ loadPassReq = "none"
  /\ passesReq = "none"
  /\ posNew = 0
  /\ posOld = 0

InitView ==
  /\ storedToken = Jwt(2)
  /\ RetryIdle
  /\ AuthIdle
  /\ \E favs \in ListsOver(Sats), pss \in ListsOver(PassRecords) : DashLoaded(favs, pss)
  /\ SearchMounted

NextView ==
  \/ \E v \in SatelliteFilters : setSatelliteFilter(v) /\ UNCHANGED <<storedToken, retryVars, authVars, searchVars>>
  \/ \E v \in SatelliteSorts : setSatelliteSort(v) /\ UNCHANGED <<storedToken, retryVars, authVars, searchVars>>
  \/ \E v \in BOOLEAN : setShowOnlyVisible(v) /\ UNCHANGED <<storedToken, retryVars, authVars, searchVars>>
  \/ \E v \in PassFilters : setPassFilter(v) /\ UNCHANGED <<storedToken, retryVars, authVars, searchVars>>
  \/ \E v \in PassSorts : setPassSort(v) /\ UNCHANGED <<storedToken, retryVars, authVars, searchVars>>

SpecView == InitView /\ [][NextView]_vars

-----------------------------------------------------------------------------
InitAuth ==
  /\ storedToken \in Tokens \cup {NoToken}
  /\ AuthIdle
  /\ RetryIdle
  /\ DashMounted
  /\ SearchMounted

NextAuth ==
  \/ LoadStoredAuth /\ UNCHANGED <<retryVars, dashVars, searchVars>>
  \/ IsAuthenticatedCall /\ UNCHANGED <<retryVars, dashVars, searchVars>>
  \/ \E k \in {"login", "register"} : AuthRequestStart(k) /\ UNCHANGED <<retryVars, dashVars, searchVars>>
  \/ \E t \in Tokens : AuthRequestSucceeds(t) /\ UNCHANGED <<retryVars, dashVars, searchVars>>
  \/ \E s \in AuthStatuses, l \in BOOLEAN :
       AuthRequestFails(s, l) /\ UNCHANGED <<retryVars, dashVars, searchVars>>
  \/ Logout /\ UNCHANGED <<retryVars, dashVars, searchVars>>
  \/ \E l \in BOOLEAN : Interceptor401(l) /\ UNCHANGED <<retryVars, dashVars, searchVars>>
  \/ PageReload /\ UNCHANGED <<retryVars, dashVars, searchVars>>
  \/ \E d \in ClockSteps : ClockAdvance(d) /\ UNCHANGED <<retryVars, dashVars, searchVars>>

SpecAuth == InitAuth /\ [][NextAuth]_vars

InitRetry ==
  /\ storedToken \in Tokens \cup {NoToken}
  /\ RetryIdle
  /\ AuthIdle
  /\ DashMounted
  /\ SearchMounted

NextRetry ==
  \/ \E m \in RetryModes, k \in 0..MaxRetriesBound, d \in BaseDelays :
       StartCall(m, k, d) /\ UNCHANGED <<authVars, dashVars, searchVars>>
  \/ \E s \in Statuses, j \in JitterSamples :
       AttemptSettles(s, j) /\ UNCHANGED <<authVars, dashVars, searchVars>>
  \/ WaitElapses /\ UNCHANGED <<authVars, dashVars, searchVars>>
  \/ \E step \in ClockSteps : ClockAdvance(step) /\ UNCHANGED <<retryVars, dashVars, searchVars>>

SpecRetry == InitRetry /\ [][NextRetry]_vars

-----------------------------------------------------------------------------
(* A session with requests: the token lifecycle together with one retried   *)
(* call, whose attempts are issued while other operations log in, log out   *)
(* or are answered 401.                                                      *)
SessionRetries == {0, 1}
SessionStatuses == {OkStatus, UnauthorizedStatus, 500}

InitSession ==
  /\ storedToken \in Tokens \cup {NoToken}
  /\ RetryIdle
  /\ AuthIdle
  /\ DashMounted
  /\ SearchMounted

NextSession ==
  \/ LoadStoredAuth /\ UNCHANGED <<retryVars, dashVars, searchVars>>
  \/ \E k \in {"login", "register"} : AuthRequestStart(k) /\ UNCHANGED <<retryVars, dashVars, searchVars>>
  \/ \E t \in Tokens : AuthRequestSucceeds(t) /\ UNCHANGED <<retryVars, dashVars, searchVars>>
  \/ \E s \in AuthStatuses, l \in BOOLEAN :
       AuthRequestFails(s, l) /\ UNCHANGED <<retryVars, dashVars, searchVars>>
  \/ Logout /\ UNCHANGED <<retryVars, dashVars, searchVars>>
  \/ \E l \in BOOLEAN : Interceptor401(l) /\ UNCHANGED <<retryVars, dashVars, searchVars>>
  \/ \E m \in RetryModes, k \in SessionRetries :
       StartCall(m, k, 250) /\ UNCHANGED <<authVars, dashVars, searchVars>>
  \/ \E s \in SessionStatuses : AttemptSettles(s, 0) /\ UNCHANGED <<authVars, dashVars, searchVars>>
  \/ WaitElapses /\ UNCHANGED <<authVars, dashVars, searchVars>>

SpecSession == InitSession /\ [][NextSession]_vars

-----------------------------------------------------------------------------
(* The satellite search box: typing, the debounce, and the answers of the   *)
(* searches it has issued.                                                   *)
InitSearch ==
  /\ storedToken = Jwt(2)
  /\ RetryIdle
  /\ AuthIdle
  /\ DashMounted
  /\ SearchMounted

NextSearch ==
  \/ \E q \in SearchQueries :
       setQuery(q) /\ UNCHANGED <<storedToken, retryVars, authVars, dashVars>>
  \/ DebounceFires /\ UNCHANGED <<storedToken, retryVars, authVars, dashVars>>
  \/ \E req \in sInflight, resp \in SearchResponses :
       SearchAttemptSettles(req, resp) /\ UNCHANGED <<storedToken, retryVars, authVars, dashVars>>
  \/ \E req \in sInflight :
       SearchWaitElapses(req) /\ UNCHANGED <<storedToken, retryVars, authVars, dashVars>>

SpecSearch == InitSearch /\ [][NextSearch]_vars

-----------------------------------------------------------------------------
(* Claims about retryWithBackoff / retrySimple over httpClient (SpecRetry)  *)

Count401(seq) == Cardinality({i \in DOMAIN seq : seq[i] = 401})

(* C2: within one call the interceptor removes the persisted token exactly *)
(* once if some attempt received a 401 (and never otherwise), and an        *)
(* attempt that received a 401 is the last attempt of the call.             *)
C2_InvalidatedExactlyOnce ==
  /\ rInvalidations = (IF Count401(rStatuses) > 0 THEN 1 ELSE 0)
  /\ \A i \in DOMAIN rStatuses :
       rStatuses[i] = 401 =>
         /\ i = Len(rStatuses)
         /\ rPc = "done"
         /\ storedToken = NoToken

C2_Witness ==
  /\ rPc = "done"
  /\ Len(rStatuses) = 3
  /\ rStatuses[3] = 401
  /\ rReq.auth # NoToken
  /\ storedToken = NoToken
  /\ rInvalidations = 1

(* C3: an attempt answered with a status in 400..499 other than 429 ends   *)
(* the call at once: no wait follows it and its own error is what the call *)
(* throws; when it is the first attempt the call made exactly one attempt  *)
(* and waited for no delay.                                                 *)
C3_ClientErrorNotRetried ==
  \A i \in DOMAIN rStatuses :
    (rStatuses[i] >= 400 /\ rStatuses[i] <= 499 /\ rStatuses[i] # 429) =>
      /\ Len(rStatuses) = i
      /\ rPc = "done"
      /\ rWaits = i - 1
      /\ rResult = [kind |-> "error",
                    error |-> [attempt |-> i - 1, status |-> rStatuses[i]]]
      /\ (i = 1 => Len(rStatuses) = 1 /\ rWaits = 0)

C3_Witness ==
  /\ rPc = "done"
  /\ rMaxRetries = 3
  /\ rStatuses = <<404>>
  /\ rWaits = 0
  /\ rResult = [kind |-> "error", error |-> [attempt |-> 0, status |-> 404]]

IsRetryableOutcome(s) == s = NoResponse \/ s = 429 \/ (s >= 500 /\ s <= 599)
AllRetryable(seq) == \A i \in DOMAIN seq : IsRetryableOutcome(seq[i])

(* C4 as stated: the number of attempts never exceeds the policy value     *)
(* (maxRetries in the code), counted inclusive of the first attempt.        *)
C4_AttemptsWithinPolicyValue ==
  rMaxRetries >= 1 => Len(rStatuses) <= rMaxRetries

(* C4 amended: the call makes the first attempt plus at most maxRetries    *)
(* retries (at most maxRetries + 1 attempts); when every attempt fails with *)
(* a retryable outcome it makes exactly maxRetries + 1 attempts and then    *)
(* ends with an error.                                                      *)
C4_AttemptsWithinRetriesPlusOne ==
  /\ Len(rStatuses) <= rMaxRetries + 1
  /\ (Len(rStatuses) = rMaxRetries + 1 /\ rPc # "inflight") => rPc = "done"
  /\ (rPc = "done" /\ AllRetryable(rStatuses)) =>
       /\ Len(rStatuses) = rMaxRetries + 1
       /\ rResult.kind = "error"

C4_Witness ==
  /\ rPc = "done"
  /\ rMaxRetries = 3
  /\ Len(rStatuses) = 4
  /\ AllRetryable(rStatuses)
  /\ rResult.kind = "error"

(* C5: in retryWithBackoff the wait before the N-th retry is at least      *)
(* baseDelay * 2^(N-1) and less than that plus 1000 ms, and no wait follows *)
(* the final attempt.                                                       *)
C5_BackoffDelayBounds ==
  /\ rWaits <= rMaxRetries
  /\ (rPc = "waiting" /\ rMode = "backoff") =>
       /\ rWaits = Len(rStatuses)
       /\ rDelay >= rBaseDelay * Pow2(rWaits - 1)
       /\ rDelay < rBaseDelay * Pow2(rWaits - 1) + 1000
  /\ rPc = "done" => rWaits = Len(rStatuses) - 1

C5_Witness ==
  /\ rPc = "waiting"
  /\ rMode = "backoff"
  /\ rBaseDelay = 1000
  /\ rWaits = 3
  /\ rDelay = 4999

-----------------------------------------------------------------------------
(* Claims about the session-validity predicates (SpecAuth)                  *)

ValidityAgrees(call) ==
  (call.op # "none" /\ call.token.kind = "jwt") =>
     /\ (call.token.exp * 1000 <= call.now => call.result = FALSE)
     /\ (call.token.exp * 1000 > call.now => call.result = TRUE)

(* C6: for a token with an expiry claim, both authService.isAuthenticated  *)
(* and the startup restore answer false when the expiry equals the current *)
(* time or lies in the past, and true when it is strictly in the future.    *)
C6_ValidityPredicate ==
  /\ ValidityAgrees(lastCheck)
  /\ ValidityAgrees(lastRestore)

C6_Witness ==
  /\ lastCheck.op = "isAuthenticated"
  /\ lastCheck.token = Jwt(2)
  /\ lastCheck.now = 2000
  /\ lastCheck.result = FALSE
  /\ lastRestore.op = "restore"
  /\ lastRestore.token = Jwt(1)
  /\ lastRestore.now = 1000
  /\ lastRestore.result = FALSE

-----------------------------------------------------------------------------
(* Claims about the dashboard (SpecDash) and its views (SpecView).          *)

OutstandingFavoritesFetches ==
  (IF loadFavReq # "none" THEN 1 ELSE 0) + posNew + posOld

(* C1: at most one refresh is in flight at any time: a timer tick or a     *)
(* "Refresh Positions" click that arrives while an earlier load or          *)
(* positions refresh has not completed issues no request, so there are      *)
(* never two outstanding favorites fetches.                                 *)
C1_AtMostOneRefreshInFlight == OutstandingFavoritesFetches <= 1

(* C7: while auto-refresh is disabled no timer is armed, so no tick fires; *)
(* at most one timer is armed at any time; and until its first tick the     *)
(* timer armed by enabling auto-refresh is due exactly one interval after   *)
(* the moment of enabling.                                                  *)
C7_AutoRefreshTimer ==
  /\ ~autoRefresh => timers = {}
  /\ Cardinality(timers) <= 1
  /\ \A t \in timers :
       /\ t.left <= RefreshMinutes
       /\ ticksSinceEnable = 0 => t.left = RefreshMinutes - sinceEnable

C7_Witness ==
  /\ autoRefresh
  /\ nextTimerId > 2
  /\ ticksSinceEnable = 1
  /\ sinceEnable = RefreshMinutes
  /\ \E t \in timers : t.left = RefreshMinutes

(* What the health probe's answer is to the client *)
ReportsHealthy(resp) == resp.status = 200 /\ resp.body = "healthy"

(* C8: when the health probe does not report healthy (a status other than  *)
(* 200, a body status other than 'healthy', no response), the load ends     *)
(* with both collections empty and an error message stored, and neither the *)
(* favorites fetch nor the passes fetch is issued, then or later.           *)
C8_UnhealthyProbeEndsLoad ==
  [][/\ \A r \in HealthResponses :
          (HealthSettles(r) /\ mounted /\ ~ReportsHealthy(r)) =>
            /\ favorites' = <<>>
            /\ passes' = <<>>
            /\ error' = BackendDownMessage
            /\ ~backendHealthy'
            /\ loadPc' = "done"
            /\ loadFavReq' = "none"
            /\ loadPassReq' = "none"
     /\ loadPc = "done" => (loadFavReq' = "none" /\ loadPassReq' = "none")]_vars

C8_Witness ==
  /\ mounted
  /\ loadPc = "done"
  /\ ~backendHealthy
  /\ error = BackendDownMessage
  /\ favorites = <<>>
  /\ passes = <<>>
  /\ lastUpdate = NoDate

(* What the claim requires of the step that ends the fetching phase with   *)
(* the settled results fav and pss.                                         *)
FetchPhaseOutcome(fav, pss) ==
  /\ lastUpdate' > lastUpdate
  /\ fav.status = "rejected" => favorites' = <<>>
  /\ pss.status = "rejected" => passes' = <<>>
  /\ fav.status = "fulfilled" => favorites' = fav.value
  /\ pss.status = "fulfilled" => passes' = pss.value

(* C9: the two fetches of the load are independent: a fetch that fails     *)
(* empties only its own collection, the other collection holds exactly the  *)
(* data its fetch returned, and the last-updated timestamp advances         *)
(* whenever the fetching phase completes.                                   *)
C9_FetchesIndependent ==
  [][/\ \A r \in FavResponses :
          (LoadFavSettles(r) /\ mounted /\ loadPass # Pending) =>
            FetchPhaseOutcome(getFavorites(r), loadPass)
     /\ \A r \in PassResponses :
          (LoadPassSettles(r) /\ mounted /\ loadFav # Pending) =>
            FetchPhaseOutcome(loadFav, getUpcomingPasses(r))]_vars

AllEqualTo(views, v) == \A i \in DOMAIN views : views[i] = v

(* C10: the derived views are idempotent and stateless: the calls of a     *)
(* view within a render all return the same sequence, and computing the     *)
(* view once more on the same collection with the same parameters returns   *)
(* it again, whatever was rendered before.                                  *)
C10_ViewsIdempotent ==
  /\ AllEqualTo(satViews, filteredAndSortedSatellites(favorites, viewParams))
  /\ AllEqualTo(passViews, filteredAndSortedPasses(passes, viewParams).out)
  /\ Len(satViews) >= 2
  /\ Len(passViews) >= 2

C10_Witness ==
  /\ viewParams.satelliteSort = "added_at"
  /\ viewParams.passSort = "duration"
  /\ PassesAliased(viewParams)
  /\ Len(passViews) = 3
  /\ Len(passes) = 2
  /\ passes[1].duration = passes[2].duration
  /\ Len(satViews) = 3
  /\ Len(favorites) = 2
  /\ favorites[1].added_at = favorites[2].added_at

Occurrences(seq, x) == Cardinality({i \in DOMAIN seq : seq[i] = x})

IsPermutation(a, b) ==
  /\ Len(a) = Len(b)
  /\ \A i \in DOMAIN a : Occurrences(a, a[i]) = Occurrences(b, a[i])

(* C11: with the favorites and the filter text unchanged, a change of the  *)
(* satellite sort key alone gives a view that is a permutation of the       *)
(* previous view: the same entries, none dropped, none added.               *)
C11_SortKeyPermutes ==
  [][(/\ favorites' = favorites
      /\ viewParams'.satelliteFilter = viewParams.satelliteFilter
      /\ viewParams'.satelliteSort # viewParams.satelliteSort) =>
       \A i \in DOMAIN satViews' : IsPermutation(satViews[1], satViews'[i])]_vars

C11_Witness ==
  /\ viewParams.satelliteSort = "altitude"
  /\ viewParams.satelliteFilter = <<"s">>
  /\ Len(satViews) = 3
  /\ Len(satViews[1]) = 2
  /\ satViews[1][1] # satViews[1][2]
  /\ ~satViews[1][2].current_position.present

(* C12: computing a derived view never mutates the underlying collection:  *)
(* whatever the view parameters, a render leaves the stored favorites and   *)
(* passes with the same records in the same order.                          *)
C12_ViewsLeaveCollections ==
  [][favorites' = favorites /\ passes' = passes]_vars

-----------------------------------------------------------------------------
(* Claims about the token lifecycle (SpecAuth).                             *)

Restores == aPc = "boot" /\ aPc' = "ready"

(* C13: restoring a persisted token at startup always finishes with the    *)
(* loading flag cleared.  A token whose payload cannot be parsed, or whose  *)
(* expiry is not later than now (a payload without expiry included), is     *)
(* removed and the session ends unauthenticated; any other persisted token  *)
(* is kept and the session becomes authenticated with it.                   *)
C13_RestoreNeverFails ==
  [][Restores =>
       /\ ~authState'.isLoading
       /\ storedToken = NoToken =>
            storedToken' = NoToken /\ ~authState'.isAuthenticated
       /\ storedToken.kind \in {"malformed", "noexp"} =>
            storedToken' = NoToken /\ ~authState'.isAuthenticated
       /\ (storedToken.kind = "jwt" /\ storedToken.exp * 1000 <= nowMs) =>
            storedToken' = NoToken /\ ~authState'.isAuthenticated
       /\ (storedToken.kind = "jwt" /\ storedToken.exp * 1000 > nowMs) =>
            /\ storedToken' = storedToken
            /\ authState'.isAuthenticated
            /\ authState'.token = storedToken
            /\ authState'.user # "none"]_vars

C13_Witness ==
  /\ lastRestore # NoCall
  /\ lastRestore.token.kind = "jwt"
  /\ lastRestore.token.exp * 1000 = lastRestore.now
  /\ aPc = "ready"
  /\ storedToken = NoToken
  /\ ~authState.isAuthenticated
  /\ ~authState.isLoading

(* C14: a login or registration that succeeds installs the returned token  *)
(* whatever the session was before: the token is persisted and the session  *)
(* is authenticated with that token.                                        *)
C14_SuccessInstallsToken ==
  [][\A t \in Tokens :
       AuthRequestSucceeds(t) =>
         /\ storedToken' = t
         /\ authState'.isAuthenticated
         /\ authState'.token = t
         /\ ~authState'.isLoading]_vars

C14_Witness ==
  /\ lastRestore # NoCall
  /\ lastRestore.result
  /\ lastRestore.token = Jwt(2)
  /\ aReq = "none"
  /\ authState.isAuthenticated
  /\ authState.token = Jwt(1)
  /\ storedToken = Jwt(1)

(* C15: every invalidation, by logout or by a 401 seen by the transport,   *)
(* clears the persisted token and makes the session unauthenticated; so in  *)
(* every reachable state an authenticated in-memory session has a persisted *)
(* token.                                                                   *)
C15_InvalidationClearsBoth ==
  /\ [](authState.isAuthenticated => storedToken # NoToken)
  /\ [][(Logout \/ \E p \in BOOLEAN : Interceptor401(p)) =>
          (storedToken' = NoToken /\ ~authState'.isAuthenticated)]_vars

-----------------------------------------------------------------------------
(* Claims about the tokens requests carry (SpecRetry).                      *)

(* A valid session exists: the persisted token parses and expires later    *)
(* than now                                                                  *)
ValidSession ==
  storedToken.kind = "jwt" /\ storedToken.exp * 1000 > nowMs

(* C16: a request carries the session token if and only if a valid session *)
(* exists when it is issued: an expired or malformed token is never         *)
(* attached.                                                                *)
C16_TokenAttachedIffValid ==
  [][(rPc # "inflight" /\ rPc' = "inflight") =>
       /\ rReq'.auth # NoToken <=> ValidSession
       /\ rReq'.auth # NoToken => rReq'.auth = storedToken]_vars

(* A request is issued in this step *)
Issues == rPc # "inflight" /\ rPc' = "inflight"

(* C17: token invalidation takes effect eagerly: a 401 removes the         *)
(* persisted token at once, the token stays absent until a login or         *)
(* registration issues a new one, and every request issued meanwhile, by    *)
(* any operation, is sent without a token.                                  *)
C17_InvalidationIsEager ==
  [][/\ (\E l \in BOOLEAN : Interceptor401(l)) => storedToken' = NoToken
     /\ (AttemptSettles(401, 0) /\ ~rReq.retry) => storedToken' = NoToken
     /\ (storedToken = NoToken /\ storedToken' # NoToken) =>
          \E t \in Tokens : AuthRequestSucceeds(t)
     /\ (Issues /\ storedToken = NoToken) => rReq'.auth = NoToken
     /\ Issues => rReq'.auth = storedToken]_vars

C17_Witness ==
  /\ lastRestore # NoCall
  /\ lastRestore.result
  /\ authState.isAuthenticated
  /\ storedToken = NoToken
  /\ rPc = "inflight"
  /\ rAttempt = 1
  /\ rStatuses = <<500>>
  /\ rReq.auth = NoToken

(* C18: when the retry budget is exhausted, the error the caller receives  *)
(* is the error of the last attempt, with its detail, not the error of an   *)
(* earlier attempt.                                                         *)
C18_LastErrorSurfaced ==
  (rPc = "done" /\ Len(rStatuses) = rMaxRetries + 1
                /\ rStatuses[Len(rStatuses)] # OkStatus) =>
    /\ rResult.kind = "error"
    /\ rResult.error.attempt = rMaxRetries
    /\ rResult.error.status = rStatuses[Len(rStatuses)]

C18_Witness ==
  /\ rPc = "done"
  /\ rMode = "backoff"
  /\ rMaxRetries = 2
  /\ rStatuses = <<500, 429, 503>>
  /\ rResult.kind = "error"
  /\ rResult.error.status = 503

-----------------------------------------------------------------------------
(* Further claims about the dashboard (SpecDash).                           *)

NothingForPasses == {r \in PassResponses : r.status \in {404, 422}}
NothingForFavorites == {r \in FavResponses : r.status = 404}

(* C19: a 422 or 404 answer of the passes endpoint, and a 404 answer of    *)
(* the favorites endpoint, count as nothing available: the fetch resolves   *)
(* to the empty list, no error message is stored, the other collection     *)
(* keeps its records and the rest of the cycle goes on as after a success.  *)
C19_NothingAvailableIsEmpty ==
  [][/\ \A r \in NothingForPasses :
          /\ (PassesSettles(r) /\ mounted) =>
               /\ passes' = <<>>
               /\ error' = error
               /\ favorites' = favorites
               /\ ~passesLoading'
          /\ (LoadPassSettles(r) /\ mounted) =>
               /\ error' = error
               /\ loadFav = Pending => loadPass' = Fulfilled(<<>>)
               /\ loadFav # Pending =>
                    /\ passes' = <<>>
                    /\ favorites' = SettledValueOrEmpty(loadFav)
                    /\ lastUpdate' > lastUpdate
                    /\ ~loading'
     /\ \A r \in NothingForFavorites :
          /\ (\E a \in {"new", "old"} : PositionsSettles(r, a) /\ mounted) =>
               /\ favorites' = <<>>
               /\ error' = error
               /\ passes' = passes
               /\ lastUpdate' > lastUpdate
               /\ ~refreshing'
          /\ (LoadFavSettles(r) /\ mounted) =>
               /\ error' = error
               /\ loadPass = Pending => loadFav' = Fulfilled(<<>>)
               /\ loadPass # Pending =>
                    /\ favorites' = <<>>
                    /\ IsPermutation(passes', SettledValueOrEmpty(loadPass))
                    /\ lastUpdate' > lastUpdate
                    /\ ~loading']_vars

C19_Witness ==
  /\ mounted
  /\ loadPc = "fetch"
  /\ loadPassReq = "none"
  /\ loadPass = Fulfilled(<<>>)
  /\ loadFav = Pending
  /\ loadFavReq # "none"
  /\ error = "none"

-----------------------------------------------------------------------------
(* Further claims about the views (SpecView).                               *)

(* C20: with the sort key 'added_at' the satellite view is ordered by      *)
(* added-at descending: of any two favorites in it, the one added later     *)
(* comes first.                                                             *)
C20_AddedAtDescending ==
  viewParams.satelliteSort = "added_at" =>
    \A v \in DOMAIN satViews :
      \A i, j \in DOMAIN satViews[v] :
        satViews[v][i].added_at > satViews[v][j].added_at => i < j

C20_Witness ==
  /\ viewParams.satelliteSort = "added_at"
  /\ favorites = <<ISS, Hubble>>
  /\ Len(satViews) = 3
  /\ satViews[3] = <<Hubble, ISS>>

(* The minimum elevation an option of the elevation select stands for *)
MinElevation(option) ==
  CASE option = "10" -> 10 [] option = "30" -> 30 [] option = "60" -> 60

(* Whether the pass belongs to the view under the parameters *)
PassBelongs(pass, params) ==
  /\ params.passFilter # "all" => pass.max_elevation >= MinElevation(params.passFilter)
  /\ params.showOnlyVisible => pass.visibility = "visible"

(* C21: the pass view holds exactly the passes of the collection whose     *)
(* maximum elevation is at least the selected minimum and, with 'visible    *)
(* only' on, whose visibility is 'visible'; with filter 'all' and 'visible  *)
(* only' off it holds every pass.                                           *)
C21_PassViewExact ==
  \A v \in DOMAIN passViews :
    /\ \A i \in DOMAIN passes :
         Occurrences(passViews[v], passes[i]) =
           IF PassBelongs(passes[i], viewParams)
             THEN Occurrences(passes, passes[i]) ELSE 0
    /\ \A i \in DOMAIN passViews[v] : Occurrences(passes, passViews[v][i]) > 0
    /\ (viewParams.passFilter = "all" /\ ~viewParams.showOnlyVisible) =>
         Len(passViews[v]) = Len(passes)

C21_Witness ==
  /\ viewParams.passFilter = "30"
  /\ viewParams.showOnlyVisible
  /\ Len(passes) = 2
  /\ passes[2] = PassB
  /\ passes[1] = PassC
  /\ Len(passViews) = 3
  /\ passViews[3] = <<PassC>>

-----------------------------------------------------------------------------
(* Further claims about refresh cycles (SpecDash).                          *)

(* A favorites or passes fetch is issued in this step *)
IssuesFetch ==
  \/ posNew' > posNew
  \/ passesReq = "none" /\ passesReq' # "none"
  \/ loadFavReq = "none" /\ loadFavReq' # "none"
  \/ loadPassReq = "none" /\ loadPassReq' # "none"

(* The health probe of the running cycle reports healthy in this step *)
ProbeReportsHealthy ==
  loadPc = "health" /\ loadPc' = "fetch" /\ healthReq # "none" /\ healthReq' = "none"

(* C22: every refresh cycle, started by a timer tick or by the user, goes  *)
(* through the health probe first: no favorites or passes fetch is issued   *)
(* unless the probe of the same cycle has reported healthy.                 *)
C22_FetchOnlyAfterHealthyProbe ==
  [][IssuesFetch => ProbeReportsHealthy]_vars

C24_TimerReleasedOnTeardown ==
  ~mounted => (timers = {} /\ cleanupTimer = 0)

C24_Witness ==
  /\ ~mounted
  /\ autoRefresh
  /\ nextTimerId > 2
  /\ refreshInterval = nextTimerId - 1
  /\ timers = {}

(* C25: in every reachable state, also when a load and a positions refresh *)
(* overlap and their answers arrive in any order, each collection is empty  *)
(* or equal record for record to the payload of one single response, never *)
(* a combination of two responses.                                          *)
C25_CollectionsFromOneResponse ==
  /\ favorites = <<>> \/ favorites \in FavPayloads
  /\ passes = <<>> \/ passes \in PassPayloads

(* The same with the order of the passes left open *)
CollectionsFromOneResponseUpToOrder ==
  /\ favorites = <<>> \/ favorites \in FavPayloads
  /\ passes = <<>> \/ \E p \in PassPayloads : IsPermutation(passes, p)

-----------------------------------------------------------------------------
(* Further claims about the retry loop (SpecRetry).                         *)

(* Attempts started by the call, and those still without an outcome *)
AttemptsStarted == IF rPc = "idle" THEN 0 ELSE rAttempt + 1
AttemptsOutstanding == AttemptsStarted - Len(rStatuses)

(* C26: the attempts of one call are strictly sequential: attempt N+1 is   *)
(* started only after attempt N has its outcome and the delay following it  *)
(* has elapsed, so a call never has two attempts outstanding.               *)
C26_AttemptsSequential ==
  /\ AttemptsOutstanding \in {0, 1}
  /\ rPc = "inflight" => (AttemptsOutstanding = 1 /\ rWaits = rAttempt)
  /\ rPc = "waiting" => (AttemptsOutstanding = 0 /\ rWaits = rAttempt + 1)
  /\ rPc = "done" => AttemptsOutstanding = 0

C26_Witness ==
  /\ rPc = "inflight"
  /\ rAttempt = 2
  /\ Len(rStatuses) = 2
  /\ rWaits = 2

-----------------------------------------------------------------------------
(* Further claims about the dashboard's error message and refreshes.        *)

(* C27: the error message a failed passes refresh stored is cleared by the *)
(* next passes refresh that succeeds: after it no error message is stored.  *)
C27_SuccessClearsError ==
  [][\A r \in PassResponses :
       (/\ PassesSettles(r)
        /\ mounted
        /\ error = PassesFailedMessage
        /\ getUpcomingPasses(r).status = "fulfilled") => error' = "none"]_vars

(* C28: while auto-refresh is enabled and the favorites the dashboard      *)
(* holds are non-empty, every timer tick that fires with no refresh in      *)
(* flight issues a favorites fetch, also the tick of the timer armed at     *)
(* mount once the load has populated favorites.                             *)
C28_TickIssuesFetch ==
  [][(/\ \E t \in timers : TimerTick(t)
      /\ autoRefresh
      /\ favorites # <<>>
      /\ OutstandingFavoritesFetches = 0) => posNew' = posNew + 1]_vars

FailingForFavorites == {r \in FavResponses : r.status = 500}

(* C29: a positions refresh that fails changes nothing but its in-flight   *)
(* flag: favorites, passes, the error message and the last-updated          *)
(* timestamp are as before it, and the refreshing flag is cleared.          *)
C29_FailedRefreshChangesNothing ==
  [][\A r \in FailingForFavorites :
       (\E a \in {"new", "old"} : PositionsSettles(r, a) /\ mounted) =>
         /\ favorites' = favorites
         /\ passes' = passes
         /\ error' = error
         /\ lastUpdate' = lastUpdate
         /\ ~refreshing']_vars

C29_Witness ==
  /\ mounted
  /\ autoRefresh
  /\ \E t \in timers : t.favorites # <<>>
  /\ ticksSinceEnable = 1
  /\ lastUpdate = 1
  /\ posNew = 0
  /\ posOld = 0
  /\ ~refreshing
  /\ favorites # <<>>

-----------------------------------------------------------------------------
(* Claims about the satellite search (SpecSearch)                           *)

(* C30: once no search request is in flight any more, the displayed results *)
(* are those the most recently issued query ended with: the list its        *)
(* search returned, and the empty list when it was empty or failed.  An     *)
(* answer to an earlier query never replaces them.                          *)
C30_LatestQueryWins ==
  (sLast.called /\ sInflight = {}) => sResults = sLast.results

(* The second half on its own: when the most recent query is empty and     *)
(* nothing is in flight, nothing is displayed.                               *)
EmptyQueryEndsEmpty ==
  (sLast.called /\ trim(sLast.query) = <<>> /\ sInflight = {}) => sResults = <<>>

(* With a single search issued and no later empty query there is no earlier *)
(* answer to arrive late.                                                    *)
SingleSearchWins ==
  (sLast.called /\ sLast.id = 1 /\ sInflight = {}) => sResults = sLast.results

(* The first half on its own: of two searches, the later one's results stay. *)
LaterSearchWins ==
  (sLast.called /\ sLast.id = 2 /\ sInflight = {}) => sResults = sLast.results

====
